---- MODULE Spec2Model ----
(***************************************************************************)
(* crl-updater: the per-job execution pipeline CRLJob.Run (temporary file, *)
(* bounded and format-checked download, digest comparison with the         *)
(* destination, chown/chmod, atomic rename) and the metrics it records.    *)
(* Invocations of Run do not overlap in Spec.  Files are byte sequences.   *)
(***************************************************************************)
EXTENDS Integers, Sequences, FiniteSets, TLC

\* ------------------------------------------------------------------ bounds
MaxRuns == 2        \* invocations of Run in one behaviour
MaxTail == 2        \* longest remainder of a response body after its 24-byte head
CopyBuf == 16       \* size of the buffer io.Copy hands to Read (32 KiB in Go)
MaxTicks == 1       \* invocations the scheduler starts for each job

\* ------------------------------------------------------- program constants
HeadLen == 24
X509CRLPEMHeader ==
    << 45, 45, 45, 45, 45, 66, 69, 71, 73, 78, 32, 88, 53, 48, 57, 32,
       67, 82, 76, 45, 45, 45, 45, 45 >>

ErrFormat == "source is not a DER or PEM encoded CRL"
ErrTooLarge == "input stream too large"

\* --------------------------------------------------------------- utilities
Min(a, b) == IF a <= b THEN a ELSE b

Take(s, n) == SubSeq(s, 1, n)

Drop(s, n) == SubSeq(s, n + 1, Len(s))

Absent == [exists |-> FALSE, data |-> << >>]

File(d) == [exists |-> TRUE, data |-> d]

\* owner, group and permission bits of a file; none for a file that is not
\* there, and none on Windows, which has no such attributes
NoAttr == [uid |-> -1, gid |-> -1, mode |-> 0]

\* os.Getuid() and os.Getgid() of the process
Getuid == 0

Getgid == 0

\* the permissions ioutil.TempFile creates a file with, 0600
TempFileMode == 384

\* the bits os.Chmod hands to the system for os.FileMode(m): the permission
\* bits, the rest of a plain number carrying none of the FileMode flags
syscallMode(m) == m % 512

\* the defaults of Prepare; durations are counted in milliseconds
DefaultTimeoutDuration == 60000

DefaultSizeLimit == 10485760

DefaultSchedule == "@hourly"

DefaultFileMode == 420

\* ------------------------------------------------------------ input spaces
Rest(k) == [i \in 1..k |-> 10 + i]

Padded(b0, b1) == << b0, b1 >> \o [i \in 1..(HeadLen - 2) |-> i]

PEMLastByteOff == [X509CRLPEMHeader EXCEPT ![HeadLen] = 43]

Garbage == [i \in 1..HeadLen |-> 71]

GoodHeads == { X509CRLPEMHeader, Padded(48, 130), Padded(48, 131) }

BadHeads == { Padded(48, 129), Padded(49, 130), Padded(130, 48), PEMLastByteOff, Garbage }

ShortBodies == { << >>, << 48, 130 >>, Take(X509CRLPEMHeader, HeadLen - 1) }

Bodies ==
    { h \o Rest(k) : h \in GoodHeads, k \in 0..MaxTail }
        \cup { h \o Rest(k) : h \in BadHeads, k \in {0, 1} }
        \cup ShortBodies

\* how the transport hands the body over: at most chunk bytes per Read, and
\* end-of-stream either together with the last bytes or in a Read of its own
NetChunks == { 8, CopyBuf }

Responses == [data : Bodies, eofWithData : BOOLEAN, chunk : NetChunks]

NoResponse == [data |-> << >>, eofWithData |-> FALSE, chunk |-> CopyBuf]

\* size limits a prepared job can carry (Prepare leaves any positive value)
Limits == { 10, HeadLen, HeadLen + 1, HeadLen + 2 }

InitialDestinations == { Absent, File(X509CRLPEMHeader \o Rest(1)), File(<< 79, 76, 68 >>) }

\* ------------------------------------------------------------------- state
VARIABLES
    job,          \* the prepared CRLJob descriptor
    GOOS,         \* runtime.GOOS
    destFile,     \* the file at j.Destination
    tempFile,     \* the renameio temporary file next to it
    metrics,      \* the Metrics counters
    pc,           \* position of the invocation inside Run
    resp,         \* the HTTP response being served to this invocation
    gotResp,      \* c.Get returned a response
    body,         \* unread remainder of r.Body
    head,         \* the head buffer of downloadCRL
    mrHead,       \* unread remainder of bytes.NewReader(head)
    mrIdx,        \* readers the io.MultiReader has dropped
    lsrN,         \* LimitedStrictReader.N
    tempHash,     \* running state of tempHash
    dest0,        \* the destination when the invocation started
    outcome,      \* how the last invocation ended
    errKind,      \* which error ended it
    nruns,        \* invocations started so far
    destOpened,   \* os.Open(j.Destination) succeeded in this invocation
    renames,      \* renames onto the destination in this invocation
    netFault,     \* the transport failed during this invocation
    prev,         \* outcome and body of the invocation before this one
    destAttr,     \* owner, group and mode of the file at j.Destination
    tempAttr,     \* owner, group and mode of the temporary file
    cfg,          \* cfg.CRLJobs: the descriptors main walks over
    configured,   \* the descriptors as the configuration file gave them
    mainPc,       \* position of main in its loop over the jobs
    entries,      \* the entries of the cron scheduler, in the order added
    running,      \* sched.Start() has been called
    prepErr,      \* what Prepare returned for each job
    inv,          \* the invocation of Run of each job
    files,        \* the destination files of the jobs, by path
    pm,           \* pmMetrics, the counters all jobs share
    completed,    \* invocations of each job that have returned
    lsrc,         \* a LimitedStrictReadCloser: R, N and Err
    call          \* what the Reads of lsrc have returned so far

disk == << destFile, tempFile >>
locals == << resp, gotResp, body, head, mrHead, mrIdx, lsrN, tempHash >>
ghost == << dest0, outcome, errKind, nruns, destOpened, renames, netFault, prev >>
attrs == << destAttr, tempAttr >>
sys == << cfg, configured, mainPc, entries, running, prepErr, inv, files, pm, completed >>
pipeline == << job, disk, attrs, metrics, pc, locals, ghost >>
reader == << lsrc, call >>
vars == << GOOS, reader, pipeline, sys >>

\* no LimitedStrictReadCloser has been made
NoReader == lsrc = << >> /\ call = << >>

JobLabel == << job.ID, job.Destination >>

\* main and the scheduler left out: the job is taken as prepared and scheduled
NoStartup ==
    /\ cfg = << >> /\ configured = << >> /\ prepErr = << >>
    /\ mainPc = [i |-> 1, at |-> "serve"]
    /\ entries = << >> /\ running = TRUE
    /\ inv = << >> /\ files = << >> /\ completed = << >>
    /\ pm = [SuccessTotal |-> 0, ErrorTotal |-> 0, Success |-> << >>, Error |-> << >>]

\* ------------------------------------------------------------------ digest
\* sha256 as an iterated compression over the bytes written to it
HashNew == 7

RECURSIVE HashWrite(_, _)
HashWrite(h, bytes) ==
    IF bytes = << >> THEN h
    ELSE HashWrite((h * 31 + Head(bytes) + 1) % 65521, Tail(bytes))

HashSum(h) == h

\* ------------------------------------------------------------------ isCRL
\* the DER test without the three-byte length form 0x83
isCRLNoLongForm(b) ==
    b = X509CRLPEMHeader \/ (b[1] = 48 /\ b[2] = 130)

isCRL(b) ==
    b = X509CRLPEMHeader \/ (b[1] = 48 /\ (b[2] = 130 \/ b[2] = 131))

\* ---------------------------------------------------------------- readers
\* r.Body.Read(p) with len(p) = lenp, when the transport does not fail
BodyRead(lenp) ==
    LET n == Min(Min(lenp, resp.chunk), Len(body)) IN
    [ n     |-> n,
      data  |-> Take(body, n),
      err   |-> IF n = Len(body) /\ (n = 0 \/ resp.eofWithData) THEN "EOF" ELSE "nil",
      body  |-> Drop(body, n),
      mrHead |-> mrHead,
      mrIdx |-> mrIdx,
      N     |-> lsrN ]

\* the body read in place of the MultiReader: the head is not emitted again
MultiReaderReadBodyOnly(lenp) ==
    LET r == BodyRead(lenp) IN
    [ r EXCEPT !.mrIdx = IF r.err = "EOF" THEN 2 ELSE 1 ]

\* io.MultiReader(bytes.NewReader(head), r.Body).Read(p)
MultiReaderRead(lenp) ==
    IF mrIdx = 0 /\ Len(mrHead) > 0
    THEN LET n == Min(lenp, Len(mrHead)) IN
         [ n |-> n, data |-> Take(mrHead, n), err |-> "nil", body |-> body,
           mrHead |-> Drop(mrHead, n), mrIdx |-> 0, N |-> lsrN ]
    ELSE IF mrIdx < 2
    THEN LET r == BodyRead(lenp) IN
         [ r EXCEPT !.mrIdx = IF r.err = "EOF" THEN 2 ELSE 1 ]
    ELSE [ n |-> 0, data |-> << >>, err |-> "EOF", body |-> body,
           mrHead |-> mrHead, mrIdx |-> mrIdx, N |-> lsrN ]

\* io.LimitedReader in its place: a clean end-of-stream at the limit
LimitedReaderRead(lenp) ==
    IF lsrN <= 0
    THEN [ n |-> 0, data |-> << >>, err |-> "EOF", body |-> body,
           mrHead |-> mrHead, mrIdx |-> mrIdx, N |-> lsrN ]
    ELSE LET r == MultiReaderRead(Min(lenp, lsrN)) IN
         [ r EXCEPT !.N = lsrN - r.n ]

\* the limit test off by one: l.N <= 1
LimitedStrictReaderReadOffByOne(lenp) ==
    IF lsrN <= 1
    THEN [ n |-> 0, data |-> << >>, err |-> ErrTooLarge, body |-> body,
           mrHead |-> mrHead, mrIdx |-> mrIdx, N |-> lsrN ]
    ELSE LET r == MultiReaderRead(Min(lenp, lsrN)) IN
         [ r EXCEPT !.N = lsrN - r.n ]

\* LimitedStrictReader.Read(p) with len(p) = lenp
LimitedStrictReaderRead(lenp) ==
    IF lsrN <= 0
    THEN [ n |-> 0, data |-> << >>, err |-> ErrTooLarge, body |-> body,
           mrHead |-> mrHead, mrIdx |-> mrIdx, N |-> lsrN ]
    ELSE LET r == MultiReaderRead(Min(lenp, lsrN)) IN
         [ r EXCEPT !.N = lsrN - r.n ]

\* the limited reader wrapped around the source outside the force test
SrcReadAlwaysLimited ==
    IF lsrN <= 0
    THEN [ n |-> 0, data |-> << >>, err |-> ErrTooLarge, body |-> body,
           mrHead |-> mrHead, mrIdx |-> mrIdx, N |-> lsrN ]
    ELSE LET r == MultiReaderRead(Min(CopyBuf, lsrN)) IN
         [ r EXCEPT !.N = lsrN - r.n ]

\* src.Read(buf) of the io.Copy in downloadCRL: the body itself when force is
\* set, the limited reader over head and body otherwise
SrcRead ==
    IF job.ForceUpdate THEN BodyRead(CopyBuf) ELSE LimitedStrictReaderRead(CopyBuf)

\* the next Read of src reaches the network
ReadsNetwork ==
    job.ForceUpdate \/ (lsrN > 0 /\ Len(mrHead) = 0 /\ mrIdx < 2)

\* dest.Write(buf[0:nr]): the temporary file alone when force is set, the
\* io.MultiWriter over the file and the digest otherwise
DestWrite(data) ==
    /\ tempFile' = [tempFile EXCEPT !.data = @ \o data]
    /\ tempHash' = IF job.ForceUpdate THEN tempHash ELSE HashWrite(tempHash, data)

\* ----------------------------------------------------------------- metrics
RecordError ==
    metrics' = [metrics EXCEPT !.ErrorTotal = @ + 1, !.Error[JobLabel] = @ + 1]

\* the labelled counter forgotten
RecordSuccessTotalOnly ==
    metrics' = [metrics EXCEPT !.SuccessTotal = @ + 1]

RecordSuccess ==
    metrics' = [metrics EXCEPT !.SuccessTotal = @ + 1, !.Success[JobLabel] = @ + 1]

\* no deferred Cleanup: the temporary file stays
CleanupMissing == tempFile' = tempFile /\ tempAttr' = tempAttr

\* the deferred tempFile.Cleanup() of a file that was not renamed
Cleanup == tempFile' = Absent /\ tempAttr' = NoAttr

Finish(o, k) == pc' = "idle" /\ outcome' = o /\ errKind' = k

\* --------------------------------------------------------------- downloadCRL
\* downloadCRL(url, file, hash, limit, timeout, force) as a whole, for a
\* response r delivered without a transport failure: the error it returns
\* and the bytes it has written to the temporary file and to the digest
downloadCRL(force, limit, r) ==
    LET n == Len(r.data) IN
    IF force THEN [err |-> "none", data |-> r.data]
    ELSE IF n < HeadLen THEN [err |-> "head read failed", data |-> << >>]
    ELSE IF ~isCRL(Take(r.data, HeadLen)) THEN [err |-> ErrFormat, data |-> << >>]
    ELSE IF n > limit \/ (n = limit /\ ~(r.eofWithData /\ n > HeadLen))
         THEN [err |-> ErrTooLarge, data |-> Take(r.data, Min(n, limit))]
    ELSE [err |-> "none", data |-> r.data]

\* ------------------------------------------------------------------ Prepare
\* the user and group databases user.Lookup and user.LookupGroup read: name
\* to the decimal digits of the id
Passwd == ("crl" :> << 1, 0, 0, 1 >>)

GroupDb == ("crl" :> << 1, 0, 0, 2 >>)

\* strconv.Atoi on a string of characters given by their digit values; any
\* other character is an error
RECURSIVE AtoiFrom(_, _)
AtoiFrom(acc, ds) ==
    IF ds = << >> THEN acc ELSE AtoiFrom(acc * 10 + Head(ds), Tail(ds))

Atoi(ds) ==
    IF ds # << >> /\ \A k \in 1..Len(ds) : ds[k] \in 0..9
    THEN [err |-> FALSE, n |-> AtoiFrom(0, ds)]
    ELSE [err |-> TRUE, n |-> 0]

\* cron.ParseStandard accepts five fields or a descriptor; of the schedules
\* of the model it accepts these
ParsesStandard(s) == s \in { "@hourly", "*/5 * * * *", "@every 1m" }

\* time.ParseDuration on the timeout strings of the model, in milliseconds:
\* a signed sequence of numbers each with a unit; the empty string and a
\* number without a unit are errors
ParseDuration(s) ==
    LET known == ("30s" :> 30000) @@ ("0s" :> 0) @@ ("-5s" :> -5000) IN
    IF s \in DOMAIN known THEN [err |-> FALSE, d |-> known[s]]
    ELSE [err |-> TRUE, d |-> 0]

\* the owner block of Prepare
PrepareOwner(j) ==
    IF j.Owner # ""
    THEN IF j.Owner \notin DOMAIN Passwd
         THEN [err |-> "user lookup failed", job |-> j]
         ELSE LET a == Atoi(Passwd[j.Owner]) IN
              [err |-> IF a.err THEN "uid conversion failed" ELSE "nil",
               job |-> [j EXCEPT !.UID = a.n]]
    ELSE [err |-> "nil", job |-> [j EXCEPT !.UID = Getuid]]

\* the group block of Prepare
PrepareGroup(j) ==
    IF j.Group # ""
    THEN IF j.Group \notin DOMAIN GroupDb
         THEN [err |-> "group lookup failed", job |-> j]
         ELSE LET a == Atoi(GroupDb[j.Group]) IN
              [err |-> IF a.err THEN "gid conversion failed" ELSE "nil",
               job |-> [j EXCEPT !.GID = a.n]]
    ELSE [err |-> "nil", job |-> [j EXCEPT !.GID = Getgid]]

\* the size limit replaced only when negative
PrepareLimitsKeepZero(j) ==
    LET t == ParseDuration(j.TimeoutHuman) IN
    [j EXCEPT !.Schedule = IF ParsesStandard(@) THEN @ ELSE DefaultSchedule,
              !.TimeoutDuration = IF t.err THEN DefaultTimeoutDuration ELSE t.d,
              !.SizeLimit = IF @ < 0 THEN DefaultSizeLimit ELSE @]

\* schedule, timeout and size limit of Prepare
PrepareLimits(j) ==
    LET t == ParseDuration(j.TimeoutHuman) IN
    [j EXCEPT !.Schedule = IF ParsesStandard(@) THEN @ ELSE DefaultSchedule,
              !.TimeoutDuration = IF t.err THEN DefaultTimeoutDuration ELSE t.d,
              !.SizeLimit = IF @ <= 0 THEN DefaultSizeLimit ELSE @]

\* j.Prepare(): the error returned and the descriptor as it leaves it
Prepare(j, goos) ==
    IF j.URL = "" \/ j.Destination = ""
    THEN [err |-> "empty 'url' and/or 'dest' parameters", job |-> j]
    ELSE IF goos = "windows"
    THEN [err |-> "nil", job |-> PrepareLimits(j)]
    ELSE LET o == PrepareOwner(j) IN
         IF o.err # "nil" THEN o
         ELSE LET g == PrepareGroup(o.job) IN
              IF g.err # "nil" THEN g
              ELSE [err |-> "nil",
                    job |-> PrepareLimits(
                              [g.job EXCEPT !.Mode = IF @ = 0 THEN DefaultFileMode ELSE @])]

\* -------------------------------------------------------------------- Init
Init ==
    /\ NoReader
    /\ job \in [ID : {1}, URL : {"http://ca.example/crl1.crl"},
                Destination : {"/etc/crl/crl1.crl"},
                Mode : {DefaultFileMode}, UID : {1001}, GID : {1002},
                ForceUpdate : BOOLEAN, Schedule : {DefaultSchedule},
                SizeLimit : Limits, TimeoutDuration : {DefaultTimeoutDuration}]
    /\ GOOS \in {"linux", "windows"}
    /\ destFile \in InitialDestinations
    /\ tempFile = Absent
    /\ destAttr = (IF destFile.exists /\ GOOS # "windows"
                   THEN [uid |-> Getuid, gid |-> Getgid, mode |-> TempFileMode]
                   ELSE NoAttr)
    /\ tempAttr = NoAttr
    /\ NoStartup
    /\ metrics = [SuccessTotal |-> 0, ErrorTotal |-> 0,
                  Success |-> [l \in {JobLabel} |-> 0], Error |-> [l \in {JobLabel} |-> 0]]
    /\ pc = "idle"
    /\ resp = NoResponse /\ gotResp = FALSE
    /\ body = << >> /\ head = << >> /\ mrHead = << >> /\ mrIdx = 0 /\ lsrN = 0
    /\ tempHash = HashNew
    /\ dest0 = destFile /\ outcome = "none" /\ errKind = "none" /\ nruns = 0
    /\ destOpened = FALSE /\ renames = 0 /\ netFault = FALSE
    /\ prev = [outcome |-> "other", data |-> << >>, created |-> FALSE]

\* --------------------------------------------------------------------- Run
\* the digest object kept from the invocation before instead of sha256.New()
BeginKeepsHash ==
    /\ pc = "idle"
    /\ nruns < MaxRuns
    /\ nruns' = nruns + 1
    /\ dest0' = destFile
    /\ prev' = IF outcome = "updated"
                THEN [outcome |-> outcome, data |-> resp.data, created |-> ~dest0.exists]
                ELSE [outcome |-> "other", data |-> << >>, created |-> FALSE]
    /\ destOpened' = FALSE /\ renames' = 0 /\ netFault' = FALSE
    /\ resp' = NoResponse /\ gotResp' = FALSE
    /\ body' = << >> /\ head' = << >> /\ mrHead' = << >> /\ mrIdx' = 0 /\ lsrN' = 0
    /\ tempHash' = tempHash

\* what every invocation starts from
Begin ==
    /\ pc = "idle"
    /\ nruns < MaxRuns
    /\ nruns' = nruns + 1
    /\ dest0' = destFile
    /\ prev' = IF outcome = "updated"
                THEN [outcome |-> outcome, data |-> resp.data, created |-> ~dest0.exists]
                ELSE [outcome |-> "other", data |-> << >>, created |-> FALSE]
    /\ destOpened' = FALSE /\ renames' = 0 /\ netFault' = FALSE
    /\ resp' = NoResponse /\ gotResp' = FALSE
    /\ body' = << >> /\ head' = << >> /\ mrHead' = << >> /\ mrIdx' = 0 /\ lsrN' = 0
    /\ tempHash' = HashNew

TempFileFail ==
    /\ Begin
    /\ RecordError
    /\ Finish("failed", "failed to create a temporary file")
    /\ UNCHANGED << job, GOOS, reader, sys, destAttr, tempAttr,
                    disk >>

TempFileOk ==
    /\ Begin
    /\ tempFile' = File(<< >>)
    /\ tempAttr' = IF GOOS = "windows" THEN NoAttr
                   ELSE [uid |-> Getuid, gid |-> Getgid, mode |-> TempFileMode]
    /\ pc' = "get"
    /\ outcome' = "running" /\ errKind' = "none"
    /\ UNCHANGED << job, GOOS, reader, sys, destAttr,
                    destFile, metrics >>

HttpGetFail ==
    /\ pc = "get"
    /\ netFault' = TRUE
    /\ Cleanup /\ RecordError /\ Finish("failed", "http request failed")
    /\ UNCHANGED << job, GOOS, reader, sys, destAttr,
                    destFile, locals, dest0, nruns, destOpened, renames, prev >>

HttpGetOk ==
    /\ pc = "get"
    /\ \E r \in Responses :
         /\ resp' = r
         /\ body' = r.data
    /\ gotResp' = TRUE
    /\ pc' = IF job.ForceUpdate THEN "copy" ELSE "head"
    /\ UNCHANGED << job, GOOS, reader, sys, destAttr, tempAttr,
                    disk, metrics, head, mrHead, mrIdx, lsrN, tempHash, ghost >>

\* a single Read in place of io.ReadFull: a short head goes to isCRL as it is
ReadHeadShortChecked ==
    /\ pc = "head"
    /\ Len(body) < HeadLen
    /\ Len(body) >= 2 /\ body[1] = 48 /\ body[2] \in {130, 131}
    /\ head' = body
    /\ body' = << >>
    /\ mrHead' = body
    /\ mrIdx' = 0
    /\ lsrN' = job.SizeLimit
    /\ pc' = "copy"
    /\ UNCHANGED << job, GOOS, reader, sys, destAttr, tempAttr,
                    disk, metrics, resp, gotResp, tempHash, ghost >>

\* io.ReadFull(r.Body, head) meets the end of the body before 24 bytes
ReadHeadShort ==
    /\ pc = "head"
    /\ Len(body) < HeadLen
    /\ body' = << >>
    /\ Cleanup /\ RecordError /\ Finish("failed", "head read failed")
    /\ UNCHANGED << job, GOOS, reader, sys, destAttr,
                    destFile, resp, gotResp, head, mrHead, mrIdx, lsrN, tempHash,
                    dest0, nruns, destOpened, renames, netFault, prev >>

\* io.ReadFull(r.Body, head) fails in the transport
ReadHeadNetFail ==
    /\ pc = "head"
    /\ netFault' = TRUE
    /\ Cleanup /\ RecordError /\ Finish("failed", "head read failed")
    /\ UNCHANGED << job, GOOS, reader, sys, destAttr,
                    destFile, locals, dest0, nruns, destOpened, renames, prev >>

FormatReject ==
    /\ pc = "head"
    /\ Len(body) >= HeadLen
    /\ ~isCRL(Take(body, HeadLen))
    /\ head' = Take(body, HeadLen)
    /\ body' = Drop(body, HeadLen)
    /\ Cleanup /\ RecordError /\ Finish("failed", ErrFormat)
    /\ UNCHANGED << job, GOOS, reader, sys, destAttr,
                    destFile, resp, gotResp, mrHead, mrIdx, lsrN, tempHash,
                    dest0, nruns, destOpened, renames, netFault, prev >>

FormatAccept ==
    /\ pc = "head"
    /\ Len(body) >= HeadLen
    /\ isCRL(Take(body, HeadLen))
    /\ head' = Take(body, HeadLen)
    /\ body' = Drop(body, HeadLen)
    /\ mrHead' = Take(body, HeadLen)
    /\ mrIdx' = 0
    /\ lsrN' = job.SizeLimit
    /\ pc' = "copy"
    /\ UNCHANGED << job, GOOS, reader, sys, destAttr, tempAttr,
                    disk, metrics, resp, gotResp, tempHash, ghost >>

\* one turn of the io.Copy loop: Read returned bytes and no error
CopyChunk ==
    /\ pc = "copy"
    /\ LET r == SrcRead IN
         /\ r.err = "nil"
         /\ DestWrite(r.data)
         /\ body' = r.body /\ mrHead' = r.mrHead /\ mrIdx' = r.mrIdx /\ lsrN' = r.N
    /\ UNCHANGED << job, GOOS, reader, sys, destAttr, tempAttr,
                    destFile, metrics, pc, resp, gotResp, head, ghost >>

\* Read returned io.EOF, with or without last bytes: the copy is complete
CopyEOF ==
    /\ pc = "copy"
    /\ LET r == SrcRead IN
         /\ r.err = "EOF"
         /\ DestWrite(r.data)
         /\ body' = r.body /\ mrHead' = r.mrHead /\ mrIdx' = r.mrIdx /\ lsrN' = r.N
    /\ pc' = "compare"
    /\ UNCHANGED << job, GOOS, reader, sys, destAttr, tempAttr,
                    destFile, metrics, resp, gotResp, head, ghost >>

\* Read returned the limit error
CopyTooLarge ==
    /\ pc = "copy"
    /\ SrcRead.err = ErrTooLarge
    /\ Cleanup /\ RecordError /\ Finish("failed", ErrTooLarge)
    /\ UNCHANGED << job, GOOS, reader, sys, destAttr,
                    destFile, locals, dest0, nruns, destOpened, renames,
                    netFault, prev >>

\* the error of io.Copy dropped: the run goes on with what was copied
CopyNetFailIgnored ==
    /\ pc = "copy"
    /\ ReadsNetwork
    /\ netFault' = TRUE
    /\ pc' = "compare"
    /\ UNCHANGED << job, GOOS, reader, sys, destAttr, tempAttr,
                    disk, metrics, locals, dest0, outcome, errKind, nruns,
                    destOpened, renames, prev >>

\* Read failed in the transport (timeout, reset)
CopyNetFail ==
    /\ pc = "copy"
    /\ ReadsNetwork
    /\ netFault' = TRUE
    /\ Cleanup /\ RecordError /\ Finish("failed", "copy failed")
    /\ UNCHANGED << job, GOOS, reader, sys, destAttr,
                    destFile, locals, dest0, nruns, destOpened, renames, prev >>

\* the comparison made without the force test
SkipCompareMissing ==
    /\ pc = "compare"
    /\ job.ForceUpdate
    /\ destOpened' = destFile.exists
    /\ IF destFile.exists /\ HashSum(tempHash) = HashSum(HashWrite(HashNew, destFile.data))
       THEN Cleanup /\ RecordSuccess /\ Finish("unchanged", "none")
       ELSE pc' = "chown" /\ UNCHANGED << disk, tempAttr, metrics, outcome, errKind >>
    /\ UNCHANGED << job, GOOS, reader, sys, destAttr,
                    destFile, locals, dest0, nruns, renames, netFault, prev >>

\* if !j.ForceUpdate is false: no comparison
SkipCompare ==
    /\ pc = "compare"
    /\ job.ForceUpdate
    /\ pc' = "chown"
    /\ UNCHANGED << job, GOOS, reader, sys, destAttr, tempAttr,
                    disk, metrics, locals, ghost >>

\* os.Open(j.Destination) fails: the file is absent, or it cannot be opened
OpenDestFail ==
    /\ pc = "compare"
    /\ ~job.ForceUpdate
    /\ \E readable \in BOOLEAN : ~(destFile.exists /\ readable)
    /\ pc' = "chown"
    /\ UNCHANGED << job, GOOS, reader, sys, destAttr, tempAttr,
                    disk, metrics, locals, ghost >>

\* the error of io.Copy(destHash, destFile) dropped: the run goes on to the
\* replacement
CompareReadFailIgnored ==
    /\ pc = "compare"
    /\ ~job.ForceUpdate
    /\ destFile.exists
    /\ destOpened' = TRUE
    /\ pc' = "chown"
    /\ UNCHANGED << job, GOOS, reader, sys, destAttr, tempAttr,
                    disk, metrics, locals, dest0, outcome, errKind, nruns,
                    renames, netFault, prev >>

\* io.Copy(destHash, destFile) fails
CompareReadFail ==
    /\ pc = "compare"
    /\ ~job.ForceUpdate
    /\ destFile.exists
    /\ destOpened' = TRUE
    /\ Cleanup /\ RecordError /\ Finish("failed", "failed to compare CRL files")
    /\ UNCHANGED << job, GOOS, reader, sys, destAttr,
                    destFile, locals, dest0, nruns, renames, netFault, prev >>

\* destHash never fed: the io.Copy into it left out
DestHashEmpty == HashNew

\* destHash after io.Copy(destHash, bufio.NewReader(destFile))
DestHash == HashWrite(HashNew, destFile.data)

\* equal digests not returned on: the run goes on to the replacement
CompareEqualReplaces ==
    /\ pc = "compare"
    /\ ~job.ForceUpdate
    /\ destFile.exists
    /\ HashSum(tempHash) = HashSum(DestHash)
    /\ destOpened' = TRUE
    /\ pc' = "chown"
    /\ UNCHANGED << job, GOOS, reader, sys, destAttr, tempAttr,
                    disk, metrics, locals, dest0, outcome, errKind, nruns,
                    renames, netFault, prev >>

CompareEqual ==
    /\ pc = "compare"
    /\ ~job.ForceUpdate
    /\ destFile.exists
    /\ HashSum(tempHash) = HashSum(DestHash)
    /\ destOpened' = TRUE
    /\ Cleanup /\ RecordSuccess /\ Finish("unchanged", "none")
    /\ UNCHANGED << job, GOOS, reader, sys, destAttr,
                    destFile, locals, dest0, nruns, renames, netFault, prev >>

CompareDiffer ==
    /\ pc = "compare"
    /\ ~job.ForceUpdate
    /\ destFile.exists
    /\ HashSum(tempHash) # HashSum(DestHash)
    /\ destOpened' = TRUE
    /\ pc' = "chown"
    /\ UNCHANGED << job, GOOS, reader, sys, destAttr, tempAttr,
                    disk, metrics, locals, dest0, outcome, errKind, nruns,
                    renames, netFault, prev >>

\* runtime.GOOS == "windows": no chown, no chmod
SkipOwnership ==
    /\ pc = "chown"
    /\ GOOS = "windows"
    /\ pc' = "replace"
    /\ UNCHANGED << job, GOOS, reader, sys, destAttr, tempAttr,
                    disk, metrics, locals, ghost >>

\* the error of os.Chown dropped: the run goes on with the owner as it was
ChownFailIgnored ==
    /\ pc = "chown"
    /\ GOOS # "windows"
    /\ pc' = "chmod"
    /\ UNCHANGED << job, GOOS, reader, sys, destAttr, tempAttr,
                    disk, metrics, locals, ghost >>

\* os.Chown(tempFile.Name(), j.UID, j.GID)
ChownOk ==
    /\ pc = "chown"
    /\ GOOS # "windows"
    /\ tempAttr' = [tempAttr EXCEPT !.uid = job.UID, !.gid = job.GID]
    /\ pc' = "chmod"
    /\ UNCHANGED << job, GOOS, reader, sys, destAttr,
                    disk, metrics, locals, ghost >>

ChownFail ==
    /\ pc = "chown"
    /\ GOOS # "windows"
    /\ Cleanup /\ RecordError /\ Finish("failed", "temporary file chown failed")
    /\ UNCHANGED << job, GOOS, reader, sys, destAttr,
                    destFile, locals, dest0, nruns, destOpened, renames,
                    netFault, prev >>

\* os.Chmod(tempFile.Name(), os.FileMode(j.Mode))
ChmodOk ==
    /\ pc = "chmod"
    /\ tempAttr' = [tempAttr EXCEPT !.mode = syscallMode(job.Mode)]
    /\ pc' = "replace"
    /\ UNCHANGED << job, GOOS, reader, sys, destAttr,
                    disk, metrics, locals, ghost >>

ChmodFail ==
    /\ pc = "chmod"
    /\ Cleanup /\ RecordError /\ Finish("failed", "temporary file chmod failed")
    /\ UNCHANGED << job, GOOS, reader, sys, destAttr,
                    destFile, locals, dest0, nruns, destOpened, renames,
                    netFault, prev >>

\* tempFile.CloseAtomicallyReplace() renames the temporary file onto the
\* destination; the deferred Cleanup then finds the file done
ReplaceOk ==
    /\ pc = "replace"
    /\ destFile' = File(tempFile.data)
    /\ destAttr' = tempAttr
    /\ tempFile' = Absent
    /\ tempAttr' = NoAttr
    /\ renames' = renames + 1
    /\ RecordSuccess /\ Finish("updated", "none")
    /\ UNCHANGED << job, GOOS, reader, sys,
                    locals, dest0, nruns, destOpened, netFault, prev >>

\* a replace that removes the destination before renaming, and then fails
ReplaceFailAfterRemove ==
    /\ pc = "replace"
    /\ destFile' = Absent
    /\ Cleanup /\ RecordError /\ Finish("failed", "failed to replace existing CRL file")
    /\ UNCHANGED << job, GOOS, reader, sys, destAttr,
                    locals, dest0, nruns, destOpened, renames, netFault, prev >>

\* sync, close or rename fails: the destination is as it was
ReplaceFail ==
    /\ pc = "replace"
    /\ Cleanup /\ RecordError /\ Finish("failed", "failed to replace existing CRL file")
    /\ UNCHANGED << job, GOOS, reader, sys, destAttr,
                    destFile, locals, dest0, nruns, destOpened, renames,
                    netFault, prev >>

Next ==
    \/ TempFileFail \/ TempFileOk
    \/ HttpGetFail \/ HttpGetOk
    \/ ReadHeadShort \/ ReadHeadNetFail \/ FormatReject \/ FormatAccept
    \/ CopyChunk \/ CopyEOF \/ CopyTooLarge \/ CopyNetFail
    \/ SkipCompare \/ OpenDestFail \/ CompareReadFail \/ CompareEqual \/ CompareDiffer
    \/ SkipOwnership \/ ChownOk \/ ChownFail \/ ChmodOk \/ ChmodFail
    \/ ReplaceOk \/ ReplaceFail

Spec == Init /\ [][Next]_vars

\* ==================================================================== main
\* the jobs of the configuration, by their place in cfg.CRLJobs
Jobs == DOMAIN cfg

\* a descriptor as yaml decoding leaves it: the fields without a yaml tag zero
Decoded(url, dest, mode, owner, group, force, schedule, limit, timeout) ==
    [ID |-> 0, URL |-> url, Destination |-> dest, Mode |-> mode,
     Owner |-> owner, UID |-> 0, Group |-> group, GID |-> 0,
     ForceUpdate |-> force, Schedule |-> schedule, SizeLimit |-> limit,
     TimeoutHuman |-> timeout, TimeoutDuration |-> 0, Metrics |-> "nil"]

SourceURL == "http://ca.example/ca.crl"

\* every combination of configured values for one job
PrepareJobs ==
    { Decoded(url, dest, mode, owner, group, FALSE, schedule, limit, timeout) :
        url \in {"", SourceURL},
        dest \in {"", "/etc/crl/crl1.crl", "crl/crl1.crl"},
        mode \in {0, 384},
        owner \in {"", "crl", "ghost"},
        group \in {"", "crl", "ghost"},
        schedule \in {"", "*/5 * * * *", "* * * * * *"},
        limit \in {-1, 0, 4096},
        timeout \in {"", "30s", "0s", "-5s", "soon"} }

\* the descriptors of the k-th job of a configuration of several jobs: a
\* sound one, checked or forced, and one for each way Prepare can fail
MainJobs(k) ==
    LET dest == IF k = 1 THEN "/etc/crl/crl1.crl" ELSE "/etc/crl/crl2.crl" IN
    { Decoded(SourceURL, dest, 0, "", "", force, "@hourly", 0, "30s") :
        force \in BOOLEAN }
    \cup { Decoded("", dest, 0, "", "", FALSE, "@hourly", 0, "30s"),
           Decoded(SourceURL, "", 0, "", "", FALSE, "@hourly", 0, "30s"),
           Decoded(SourceURL, dest, 0, "ghost", "", FALSE, "@hourly", 0, "30s"),
           Decoded(SourceURL, dest, 0, "crl", "ghost", FALSE, "@hourly", 0, "30s") }

\* what the source may answer to a job of the configuration
MainResponses ==
    { [data |-> d, chunk |-> CopyBuf, eofWithData |-> FALSE] :
        d \in { X509CRLPEMHeader \o Rest(1), Padded(48, 130), Garbage } }

IdleInv == [pc |-> "idle", stalled |-> FALSE, tmp |-> Absent, hash |-> HashNew,
            outcome |-> "none"]

\* the state at the top of main's loop, all of Spec's variables at rest
MainInit(jobs) ==
    /\ NoReader
    /\ cfg \in jobs /\ configured = cfg
    /\ prepErr = [i \in Jobs |-> "pending"]
    /\ mainPc = [i |-> 1, at |-> "prepare"]
    /\ entries = << >> /\ running = FALSE
    /\ inv = [i \in Jobs |-> IdleInv]
    /\ files \in [{ cfg[i].Destination : i \in Jobs } \ {""} ->
                      { Absent, File(X509CRLPEMHeader \o Rest(1)) }]
    /\ completed = [i \in Jobs |-> 0]
    /\ pm = [SuccessTotal |-> 0, ErrorTotal |-> 0, Success |-> << >>, Error |-> << >>]
    /\ GOOS \in {"linux", "windows"}
    /\ job = [ID |-> 0] /\ destFile = Absent /\ tempFile = Absent
    /\ destAttr = NoAttr /\ tempAttr = NoAttr
    /\ metrics = << >> /\ pc = "idle"
    /\ resp = NoResponse /\ gotResp = FALSE
    /\ body = << >> /\ head = << >> /\ mrHead = << >> /\ mrIdx = 0 /\ lsrN = 0
    /\ tempHash = HashNew
    /\ dest0 = Absent /\ outcome = "none" /\ errKind = "none" /\ nruns = 0
    /\ destOpened = FALSE /\ renames = 0 /\ netFault = FALSE
    /\ prev = [outcome |-> "other", data |-> << >>, created |-> FALSE]

InitMain == MainInit({ << a, b >> : a \in MainJobs(1), b \in MainJobs(2) })

InitPrepare == MainInit({ << a >> : a \in PrepareJobs })

\* where main goes after it is done with job i
Continue(i) ==
    IF i < Len(cfg) THEN [i |-> i + 1, at |-> "prepare"] ELSE [i |-> i, at |-> "start"]

\* the continue after a failed Prepare left out: the job is added all the same
MainPrepareFailAdds(i) ==
    LET r == Prepare(cfg[i], GOOS) IN
    /\ mainPc = [i |-> i, at |-> "prepare"]
    /\ r.err # "nil"
    /\ cfg' = [cfg EXCEPT ![i] = r.job]
    /\ prepErr' = [prepErr EXCEPT ![i] = r.err]
    /\ mainPc' = [i |-> i, at |-> "addjob"]
    /\ UNCHANGED << GOOS, reader, pipeline, configured, entries, running, inv, files, pm, completed >>

\* job.Prepare() returns an error: the job is logged and skipped
MainPrepareFail(i) ==
    LET r == Prepare(cfg[i], GOOS) IN
    /\ mainPc = [i |-> i, at |-> "prepare"]
    /\ r.err # "nil"
    /\ cfg' = [cfg EXCEPT ![i] = r.job]
    /\ prepErr' = [prepErr EXCEPT ![i] = r.err]
    /\ mainPc' = Continue(i)
    /\ UNCHANGED << GOOS, reader, pipeline, configured, entries, running, inv, files, pm, completed >>

MainPrepareOk(i) ==
    LET r == Prepare(cfg[i], GOOS) IN
    /\ mainPc = [i |-> i, at |-> "prepare"]
    /\ r.err = "nil"
    /\ cfg' = [cfg EXCEPT ![i] = r.job]
    /\ prepErr' = [prepErr EXCEPT ![i] = "nil"]
    /\ mainPc' = [i |-> i, at |-> "addjob"]
    /\ UNCHANGED << GOOS, reader, pipeline, configured, entries, running, inv, files, pm, completed >>

\* sched.AddJob(job.Schedule, job): the schedule is parsed by the standard
\* parser again, and the entry is appended with the next entry id
MainAddJob(i) ==
    /\ mainPc = [i |-> i, at |-> "addjob"]
    /\ IF ParsesStandard(cfg[i].Schedule)
       THEN entries' = Append(entries, i) /\ mainPc' = [i |-> i, at |-> "assign"]
       ELSE entries' = entries /\ mainPc' = Continue(i)
    /\ UNCHANGED << GOOS, reader, pipeline, cfg, configured, running, prepErr, inv, files, pm,
                    completed >>

\* job.ID = id; job.Metrics = pmMetrics
MainAssign(i) ==
    /\ mainPc = [i |-> i, at |-> "assign"]
    /\ cfg' = [cfg EXCEPT ![i].ID = Len(entries), ![i].Metrics = "pmMetrics"]
    /\ mainPc' = Continue(i)
    /\ UNCHANGED << GOOS, reader, pipeline, configured, entries, running, prepErr, inv, files, pm,
                    completed >>

\* sched.Start() called ahead of the loop as well
MainStartEarly ==
    /\ mainPc.at # "serve"
    /\ ~running \/ mainPc.at = "start"
    /\ running' = TRUE
    /\ mainPc' = IF mainPc.at = "start" THEN [mainPc EXCEPT !.at = "serve"] ELSE mainPc
    /\ UNCHANGED << GOOS, reader, pipeline, cfg, configured, entries, prepErr, inv, files, pm,
                    completed >>

\* sched.Start(), after the loop; main then serves the metrics
MainStart ==
    /\ mainPc.at = "start"
    /\ running' = TRUE
    /\ mainPc' = [mainPc EXCEPT !.at = "serve"]
    /\ UNCHANGED << GOOS, reader, pipeline, cfg, configured, entries, prepErr, inv, files, pm,
                    completed >>

\* ------------------------------------------------- Run under the scheduler
\* the scheduler holds an entry for job i
Scheduled(i) == \E k \in DOMAIN entries : entries[k] = i

\* prometheus.Labels{"job": ..., "file": ...} of job i
LabelOf(i) == << cfg[i].ID, cfg[i].Destination >>

\* the value of the child of a CounterVec, which With creates at zero
Count(vec, l) == IF l \in DOMAIN vec THEN vec[l] ELSE 0

\* vec.With(l).Inc()
IncWith(vec, l) == [k \in DOMAIN vec \cup {l} |-> Count(vec, k) + IF k = l THEN 1 ELSE 0]

\* the invocation of job i goes to the counting of an outcome
Record(i, o) == [inv[i] EXCEPT !.pc = "total", !.outcome = o]

\* a tick of the running scheduler starts Run of job i; the temporary file
\* is created and the request sent, to a source that will answer or never will
RunBegin(i) ==
    /\ running /\ Scheduled(i)
    /\ inv[i].pc = "idle" /\ completed[i] < MaxTicks
    /\ \E st \in BOOLEAN :
         inv' = [inv EXCEPT ![i] = [pc |-> "net", stalled |-> st, tmp |-> File(<< >>),
                                    hash |-> HashNew, outcome |-> "running"]]
    /\ UNCHANGED << GOOS, reader, pipeline, cfg, configured, mainPc, entries, running, prepErr,
                    files, pm, completed >>

\* renameio.TempFile fails
RunTempFileFail(i) ==
    /\ running /\ Scheduled(i)
    /\ inv[i].pc = "idle" /\ completed[i] < MaxTicks
    /\ inv' = [inv EXCEPT ![i] = [IdleInv EXCEPT !.pc = "total", !.outcome = "failed"]]
    /\ UNCHANGED << GOOS, reader, pipeline, cfg, configured, mainPc, entries, running, prepErr,
                    files, pm, completed >>

\* the source answers and downloadCRL runs to its end
RunAnswer(i) ==
    /\ inv[i].pc = "net" /\ ~inv[i].stalled
    /\ \E r \in MainResponses :
         LET dl == downloadCRL(cfg[i].ForceUpdate, cfg[i].SizeLimit, r) IN
         inv' = [inv EXCEPT ![i] =
                   IF dl.err # "none"
                   THEN [Record(i, "failed") EXCEPT !.tmp = File(dl.data)]
                   ELSE [@ EXCEPT !.pc = "compare", !.tmp = File(dl.data),
                                  !.hash = HashWrite(HashNew, dl.data)]]
    /\ UNCHANGED << GOOS, reader, pipeline, cfg, configured, mainPc, entries, running, prepErr,
                    files, pm, completed >>

\* the connection or the transport fails
RunNetFail(i) ==
    /\ inv[i].pc = "net" /\ ~inv[i].stalled
    /\ inv' = [inv EXCEPT ![i] = Record(i, "failed")]
    /\ UNCHANGED << GOOS, reader, pipeline, cfg, configured, mainPc, entries, running, prepErr,
                    files, pm, completed >>

\* the timer of http.Client{Timeout: timeout} fires; the client sets one only
\* for a Timeout above zero
RunTimeout(i) ==
    /\ inv[i].pc = "net"
    /\ cfg[i].TimeoutDuration > 0
    /\ inv' = [inv EXCEPT ![i] = Record(i, "failed")]
    /\ UNCHANGED << GOOS, reader, pipeline, cfg, configured, mainPc, entries, running, prepErr,
                    files, pm, completed >>

\* the comparison with the destination, when it is made and goes through
RunCompare(i) ==
    LET d == files[cfg[i].Destination] IN
    /\ inv[i].pc = "compare"
    /\ inv' = [inv EXCEPT ![i] =
                  IF /\ ~cfg[i].ForceUpdate /\ d.exists
                     /\ HashSum(inv[i].hash) = HashSum(HashWrite(HashNew, d.data))
                  THEN Record(i, "unchanged")
                  ELSE [@ EXCEPT !.pc = "replace"]]
    /\ UNCHANGED << GOOS, reader, pipeline, cfg, configured, mainPc, entries, running, prepErr,
                    files, pm, completed >>

\* the read of the destination, chown, chmod or the rename fails
RunFileFail(i) ==
    /\ \/ inv[i].pc = "compare" /\ ~cfg[i].ForceUpdate /\ files[cfg[i].Destination].exists
       \/ inv[i].pc = "replace"
    /\ inv' = [inv EXCEPT ![i] = Record(i, "failed")]
    /\ UNCHANGED << GOOS, reader, pipeline, cfg, configured, mainPc, entries, running, prepErr,
                    files, pm, completed >>

\* chown, chmod and tempFile.CloseAtomicallyReplace()
RunReplace(i) ==
    /\ inv[i].pc = "replace"
    /\ files' = [files EXCEPT ![cfg[i].Destination] = File(inv[i].tmp.data)]
    /\ inv' = [inv EXCEPT ![i] = [Record(i, "updated") EXCEPT !.tmp = Absent]]
    /\ UNCHANGED << GOOS, reader, pipeline, cfg, configured, mainPc, entries, running, prepErr,
                    pm, completed >>

\* j.Metrics.ErrorTotal.Inc() or j.Metrics.SuccessTotal.Inc()
RunIncTotal(i) ==
    /\ inv[i].pc = "total"
    /\ pm' = IF inv[i].outcome = "failed"
             THEN [pm EXCEPT !.ErrorTotal = @ + 1]
             ELSE [pm EXCEPT !.SuccessTotal = @ + 1]
    /\ inv' = [inv EXCEPT ![i].pc = "label"]
    /\ UNCHANGED << GOOS, reader, pipeline, cfg, configured, mainPc, entries, running, prepErr,
                    files, completed >>

\* the child of the success vector incremented whatever the outcome
RunIncLabelSuccessOnly(i) ==
    /\ inv[i].pc = "label"
    /\ pm' = [pm EXCEPT !.Success = IncWith(@, LabelOf(i))]
    /\ inv' = [inv EXCEPT ![i].pc = "return"]
    /\ UNCHANGED << GOOS, reader, pipeline, cfg, configured, mainPc, entries, running, prepErr,
                    files, completed >>

\* j.Metrics.Error.With(labels).Inc() or j.Metrics.Success.With(labels).Inc()
RunIncLabel(i) ==
    /\ inv[i].pc = "label"
    /\ pm' = IF inv[i].outcome = "failed"
             THEN [pm EXCEPT !.Error = IncWith(@, LabelOf(i))]
             ELSE [pm EXCEPT !.Success = IncWith(@, LabelOf(i))]
    /\ inv' = [inv EXCEPT ![i].pc = "return"]
    /\ UNCHANGED << GOOS, reader, pipeline, cfg, configured, mainPc, entries, running, prepErr,
                    files, completed >>

\* Run returns and the deferred tempFile.Cleanup() runs
RunReturn(i) ==
    /\ inv[i].pc = "return"
    /\ inv' = [inv EXCEPT ![i].pc = "idle", ![i].tmp = Absent]
    /\ completed' = [completed EXCEPT ![i] = @ + 1]
    /\ UNCHANGED << GOOS, reader, pipeline, cfg, configured, mainPc, entries, running, prepErr,
                    files, pm >>

NextMain ==
    \/ \E i \in Jobs : MainPrepareFail(i)
    \/ \E i \in Jobs : MainPrepareOk(i)
    \/ \E i \in Jobs : MainAddJob(i)
    \/ \E i \in Jobs : MainAssign(i)
    \/ MainStart
    \/ \E i \in Jobs : RunBegin(i)
    \/ \E i \in Jobs : RunTempFileFail(i)
    \/ \E i \in Jobs : RunAnswer(i)
    \/ \E i \in Jobs : RunNetFail(i)
    \/ \E i \in Jobs : RunTimeout(i)
    \/ \E i \in Jobs : RunCompare(i)
    \/ \E i \in Jobs : RunFileFail(i)
    \/ \E i \in Jobs : RunReplace(i)
    \/ \E i \in Jobs : RunIncTotal(i)
    \/ \E i \in Jobs : RunIncLabel(i)
    \/ \E i \in Jobs : RunReturn(i)

\* the process from main's loop on, for a configuration of two jobs
SpecMain == InitMain /\ [][NextMain]_vars

\* the same for every configuration of one job
SpecPrepare == InitPrepare /\ [][NextMain]_vars

\* ------------------------------------- overlapping invocations of one job
\* what main leaves behind, which no invocation writes
startup == << cfg, configured, mainPc, entries, running, prepErr >>

\* the invocations the scheduler has started for the job, by goroutine
Slots == DOMAIN inv

\* the names ioutil.TempFile can give, in the directory of the destination
TempNames == { "/etc/crl/.crl1.crl123456", "/etc/crl/.crl1.crl654321" }

IdleSlot == [pc |-> "idle", name |-> "", done |-> FALSE, resp |-> NoResponse,
             written |-> 0, hash |-> HashNew, outcome |-> "none"]

\* one prepared and scheduled job, the scheduler running, and two goroutines
\* the scheduler may start Run in
InitOverlap ==
    /\ NoReader
    /\ GOOS \in {"linux", "windows"}
    /\ configured \in
          { << Decoded(SourceURL, "/etc/crl/crl1.crl", 0, "", "", force, "@hourly", 0, "30s") >> :
              force \in BOOLEAN }
    /\ cfg = << [Prepare(configured[1], GOOS).job EXCEPT !.ID = 1, !.Metrics = "pmMetrics"] >>
    /\ prepErr = << "nil" >>
    /\ mainPc = [i |-> 1, at |-> "serve"]
    /\ entries = << 1 >> /\ running = TRUE
    /\ inv = [k \in {1, 2} |-> IdleSlot]
    /\ dest0 \in { Absent, File(X509CRLPEMHeader \o Rest(1)) }
    /\ files = [p \in {cfg[1].Destination} \cup TempNames |->
                  IF p = cfg[1].Destination THEN dest0 ELSE Absent]
    /\ completed = [k \in {1, 2} |-> 0]
    /\ pm = [SuccessTotal |-> 0, ErrorTotal |-> 0, Success |-> << >>, Error |-> << >>]
    /\ job = [ID |-> 0] /\ destFile = Absent /\ tempFile = Absent
    /\ destAttr = NoAttr /\ tempAttr = NoAttr
    /\ metrics = << >> /\ pc = "idle"
    /\ resp = NoResponse /\ gotResp = FALSE
    /\ body = << >> /\ head = << >> /\ mrHead = << >> /\ mrIdx = 0 /\ lsrN = 0
    /\ tempHash = HashNew
    /\ outcome = "none" /\ errKind = "none" /\ nruns = 0
    /\ destOpened = FALSE /\ renames = 0 /\ netFault = FALSE
    /\ prev = [outcome |-> "other", data |-> << >>, created |-> FALSE]

\* the invocation in slot k goes to the counting of an outcome
SlotRecord(k, o) == [inv[k] EXCEPT !.pc = "total", !.outcome = o]

\* the temporary file named after the destination alone, created or truncated
OverlapBeginFixedName(k) ==
    LET name == "/etc/crl/.crl1.crl123456" IN
    /\ inv[k].pc = "idle" /\ completed[k] = 0
    /\ files' = [files EXCEPT ![name] = File(<< >>)]
    /\ inv' = [inv EXCEPT ![k] = [IdleSlot EXCEPT !.pc = "net", !.name = name,
                                                   !.outcome = "running"]]
    /\ UNCHANGED << GOOS, reader, pipeline, startup, pm, completed >>

\* a tick starts Run in slot k: renameio.TempFile creates a file under a
\* name that is not in the directory
OverlapBegin(k) ==
    /\ inv[k].pc = "idle" /\ completed[k] = 0
    /\ \E name \in TempNames :
         /\ ~files[name].exists
         /\ files' = [files EXCEPT ![name] = File(<< >>)]
         /\ inv' = [inv EXCEPT ![k] = [IdleSlot EXCEPT !.pc = "net", !.name = name,
                                                        !.outcome = "running"]]
    /\ UNCHANGED << GOOS, reader, pipeline, startup, pm, completed >>

\* renameio.TempFile fails
OverlapTempFileFail(k) ==
    /\ inv[k].pc = "idle" /\ completed[k] = 0
    /\ inv' = [inv EXCEPT ![k] = [IdleSlot EXCEPT !.pc = "total", !.done = TRUE,
                                                   !.outcome = "failed"]]
    /\ UNCHANGED << GOOS, reader, pipeline, startup, files, pm, completed >>

\* c.Get fails or times out
OverlapGetFail(k) ==
    /\ inv[k].pc = "net"
    /\ inv' = [inv EXCEPT ![k] = SlotRecord(k, "failed")]
    /\ UNCHANGED << GOOS, reader, pipeline, startup, files, pm, completed >>

\* the source answers; a body refused before any byte is written ends the run
OverlapGetOk(k) ==
    /\ inv[k].pc = "net"
    /\ \E r \in MainResponses :
         LET dl == downloadCRL(cfg[1].ForceUpdate, cfg[1].SizeLimit, r) IN
         inv' = [inv EXCEPT ![k] =
                   IF dl.err # "none" /\ dl.data = << >>
                   THEN [SlotRecord(k, "failed") EXCEPT !.resp = r]
                   ELSE [@ EXCEPT !.pc = "copy", !.resp = r]]
    /\ UNCHANGED << GOOS, reader, pipeline, startup, files, pm, completed >>

\* one turn of io.Copy: the next bytes go to the temporary file and the digest
OverlapCopy(k) ==
    LET dl == downloadCRL(cfg[1].ForceUpdate, cfg[1].SizeLimit, inv[k].resp)
        rest == Drop(dl.data, inv[k].written)
        n == Min(CopyBuf, Len(rest)) IN
    /\ inv[k].pc = "copy"
    /\ rest # << >>
    /\ files' = [files EXCEPT ![inv[k].name] = File(@.data \o Take(rest, n))]
    /\ inv' = [inv EXCEPT ![k].written = @ + n,
                          ![k].hash = HashWrite(@, Take(rest, n))]
    /\ UNCHANGED << GOOS, reader, pipeline, startup, pm, completed >>

\* io.Copy ends: with the end of the body, or with an error
OverlapCopyEnd(k) ==
    LET dl == downloadCRL(cfg[1].ForceUpdate, cfg[1].SizeLimit, inv[k].resp) IN
    /\ inv[k].pc = "copy"
    /\ \/ /\ inv[k].written = Len(dl.data)
          /\ inv' = [inv EXCEPT ![k] = IF dl.err # "none" THEN SlotRecord(k, "failed")
                                        ELSE [@ EXCEPT !.pc = "compare"]]
       \/ inv' = [inv EXCEPT ![k] = SlotRecord(k, "failed")]
    /\ UNCHANGED << GOOS, reader, pipeline, startup, files, pm, completed >>

\* the comparison with the destination as it is now
OverlapCompare(k) ==
    LET d == files[cfg[1].Destination] IN
    /\ inv[k].pc = "compare"
    /\ inv' = [inv EXCEPT ![k] =
                  IF /\ ~cfg[1].ForceUpdate /\ d.exists
                     /\ HashSum(inv[k].hash) = HashSum(HashWrite(HashNew, d.data))
                  THEN SlotRecord(k, "unchanged")
                  ELSE [@ EXCEPT !.pc = "replace"]]
    /\ UNCHANGED << GOOS, reader, pipeline, startup, files, pm, completed >>

\* the read of the destination, chown, chmod or the rename fails
OverlapFileFail(k) ==
    /\ \/ inv[k].pc = "compare" /\ ~cfg[1].ForceUpdate /\ files[cfg[1].Destination].exists
       \/ inv[k].pc = "replace"
    /\ inv' = [inv EXCEPT ![k] = SlotRecord(k, "failed")]
    /\ UNCHANGED << GOOS, reader, pipeline, startup, files, pm, completed >>

\* CloseAtomicallyReplace: os.Rename(t.Name(), t.path), which fails when
\* nothing is under the name
OverlapReplace(k) ==
    /\ inv[k].pc = "replace"
    /\ IF files[inv[k].name].exists
       THEN /\ files' = [files EXCEPT ![cfg[1].Destination] = files[inv[k].name],
                                       ![inv[k].name] = Absent]
            /\ inv' = [inv EXCEPT ![k] = [SlotRecord(k, "updated") EXCEPT !.done = TRUE]]
       ELSE /\ files' = files
            /\ inv' = [inv EXCEPT ![k] = SlotRecord(k, "failed")]
    /\ UNCHANGED << GOOS, reader, pipeline, startup, pm, completed >>

OverlapIncTotal(k) ==
    /\ inv[k].pc = "total"
    /\ pm' = IF inv[k].outcome = "failed"
             THEN [pm EXCEPT !.ErrorTotal = @ + 1]
             ELSE [pm EXCEPT !.SuccessTotal = @ + 1]
    /\ inv' = [inv EXCEPT ![k].pc = "label"]
    /\ UNCHANGED << GOOS, reader, pipeline, startup, files, completed >>

OverlapIncLabel(k) ==
    /\ inv[k].pc = "label"
    /\ pm' = IF inv[k].outcome = "failed"
             THEN [pm EXCEPT !.Error = IncWith(@, LabelOf(1))]
             ELSE [pm EXCEPT !.Success = IncWith(@, LabelOf(1))]
    /\ inv' = [inv EXCEPT ![k].pc = "return"]
    /\ UNCHANGED << GOOS, reader, pipeline, startup, files, completed >>

\* Run returns; the deferred Cleanup removes the file under the name of the
\* temporary file unless it was renamed
OverlapReturn(k) ==
    /\ inv[k].pc = "return"
    /\ files' = IF inv[k].done THEN files ELSE [files EXCEPT ![inv[k].name] = Absent]
    /\ inv' = [inv EXCEPT ![k].pc = "idle"]
    /\ completed' = [completed EXCEPT ![k] = 1]
    /\ UNCHANGED << GOOS, reader, pipeline, startup, pm >>

NextOverlap ==
    \/ \E k \in Slots : OverlapBegin(k)
    \/ \E k \in Slots : OverlapTempFileFail(k)
    \/ \E k \in Slots : OverlapGetFail(k)
    \/ \E k \in Slots : OverlapGetOk(k)
    \/ \E k \in Slots : OverlapCopy(k)
    \/ \E k \in Slots : OverlapCopyEnd(k)
    \/ \E k \in Slots : OverlapCompare(k)
    \/ \E k \in Slots : OverlapFileFail(k)
    \/ \E k \in Slots : OverlapReplace(k)
    \/ \E k \in Slots : OverlapIncTotal(k)
    \/ \E k \in Slots : OverlapIncLabel(k)
    \/ \E k \in Slots : OverlapReturn(k)

\* two invocations of one job that the scheduler lets overlap
SpecOverlap == InitOverlap /\ [][NextOverlap]_vars

\* ------------------------------------------------ LimitedStrictReadCloser
\* int64 values, scaled: they wrap modulo Int64Span as Go's wrap modulo 2^64
Int64Span == 16
MaxInt64 == (Int64Span - 1) \div 2
MinInt64 == MaxInt64 + 1 - Int64Span
int64(x) == ((x - MinInt64) % Int64Span) + MinInt64

ErrNil == "nil"
ErrEOF == "EOF"
ErrReset == "connection reset by peer"

\* the bytes an underlying stream holds
StreamBytes == << 11, 22, 33, 44 >>

\* len(p) of the buffers handed to Read
BufLens == {0, 1, 2, 4}

\* l.R.Read(p) with len(p) = plen > 0: some of the bytes that remain, the
\* end of the stream with the last of them or after them, or a failure of
\* the transport
UnderlyingRead(R, plen) ==
    IF R.data = << >>
    THEN { [n |-> 0, err |-> ErrEOF, R |-> R] }
    ELSE { [n |-> k,
            err |-> IF k = Len(R.data) /\ R.eofWithData THEN ErrEOF ELSE ErrNil,
            R |-> [R EXCEPT !.data = Drop(@, k)]] : k \in 1..Min(plen, Len(R.data)) }
         \cup (IF R.faulty THEN { [n |-> 0, err |-> ErrReset, R |-> R] } ELSE {})

\* Read with len(p) = plen: what it returns, what it leaves in l, and
\* whether it called l.R.Read
LimitedStrictReadCloserRead(l, plen) ==
    IF l.Err # ErrNil
    THEN { [l |-> l, n |-> 0, err |-> l.Err, under |-> FALSE, panic |-> FALSE] }
    ELSE IF plen = 0
    THEN { [l |-> l, n |-> 0, err |-> ErrNil, under |-> FALSE, panic |-> FALSE] }
    ELSE IF plen > int64(l.N + 1) /\ int64(l.N + 1) < 0
    THEN \* p[:l.N+1] with a negative bound: slice bounds out of range
         { [l |-> l, n |-> 0, err |-> ErrNil, under |-> FALSE, panic |-> TRUE] }
    ELSE LET len == IF plen > int64(l.N + 1) THEN int64(l.N + 1) ELSE plen IN
         { IF u.n <= l.N
           THEN [l |-> [R |-> u.R, N |-> int64(l.N - u.n), Err |-> u.err],
                 n |-> u.n, err |-> u.err, under |-> TRUE, panic |-> FALSE]
           ELSE [l |-> [R |-> u.R, N |-> 0, Err |-> ErrTooLarge],
                 n |-> l.N, err |-> ErrTooLarge, under |-> TRUE, panic |-> FALSE]
           : u \in UnderlyingRead(l.R, len) }

\* LimitStrictReadCloser(r, n) over a stream and a limit, nothing read yet
InitReader ==
    /\ GOOS = "linux"
    /\ \E len \in 0..Len(StreamBytes), eof \in BOOLEAN, faulty \in BOOLEAN, n \in 0..MaxInt64 :
         /\ lsrc = [R |-> [data |-> Take(StreamBytes, len), eofWithData |-> eof, faulty |-> faulty],
                    N |-> n, Err |-> ErrNil]
         /\ call = [stream |-> Take(StreamBytes, len), N0 |-> n, delivered |-> << >>,
                    n |-> 0, err |-> ErrNil, under |-> 0, panicked |-> FALSE]
    /\ NoStartup
    /\ job = [ID |-> 0] /\ destFile = Absent /\ tempFile = Absent
    /\ destAttr = NoAttr /\ tempAttr = NoAttr
    /\ metrics = << >> /\ pc = "idle"
    /\ resp = NoResponse /\ gotResp = FALSE
    /\ body = << >> /\ head = << >> /\ mrHead = << >> /\ mrIdx = 0 /\ lsrN = 0
    /\ tempHash = HashNew
    /\ dest0 = Absent /\ outcome = "none" /\ errKind = "none" /\ nruns = 0
    /\ destOpened = FALSE /\ renames = 0 /\ netFault = FALSE
    /\ prev = [outcome |-> "other", data |-> << >>, created |-> FALSE]

\* one call of Read by the reader's user; a panic ends the goroutine
ReaderRead ==
    /\ ~call.panicked
    /\ \E plen \in BufLens : \E o \in LimitedStrictReadCloserRead(lsrc, plen) :
         /\ lsrc' = o.l
         /\ call' = [call EXCEPT
                       !.delivered = @ \o Take(Drop(call.stream, Len(call.stream) - Len(lsrc.R.data)), o.n),
                       !.n = o.n, !.err = o.err,
                       !.under = @ + (IF o.under THEN 1 ELSE 0),
                       !.panicked = o.panic]
    /\ UNCHANGED << GOOS, pipeline, sys >>

NextReader == ReaderRead

\* successive Reads of one LimitedStrictReadCloser
SpecReader == InitReader /\ [][NextReader]_vars

\* =================================================================== claims
\* an invocation has returned and the run fields describe it
Returned == pc = "idle" /\ nruns > 0

\* the invocation is past downloadCRL
PastDownload == pc \in {"compare", "chown", "chmod", "replace"}

\* C1: in every state the destination holds either what it held when the
\* current invocation started or the complete body of this invocation's
\* download; it changes only by the one rename, never while the temporary
\* file is being written.
C1_DestinationOldOrComplete ==
    /\ destFile = dest0 \/ (gotResp /\ destFile = File(resp.data))
    /\ renames <= 1
    /\ renames = 0 => destFile = dest0
    /\ renames = 1 => Returned /\ outcome = "updated" /\ destFile = File(resp.data)

C1_Witness ==
    /\ Returned /\ nruns = 2 /\ renames = 1
    /\ dest0.exists /\ destFile # dest0
    /\ destFile = File(resp.data) /\ Len(resp.data) > HeadLen

\* C2: an invocation that ended in failure, of whatever kind, leaves the
\* destination as it was when the invocation started (an absent one absent)
\* and no temporary file, so the files a later invocation finds are those it
\* would have found had the failed one not run.
C2_FailureLeavesDestination ==
    (Returned /\ outcome = "failed") =>
        /\ destFile = dest0
        /\ tempFile = Absent
        /\ renames = 0

C2_Witness ==
    /\ Returned /\ outcome = "failed"
    /\ errKind = "failed to replace existing CRL file"
    /\ dest0.exists /\ gotResp /\ resp.data # dest0.data /\ destFile = dest0

\* the four counters move by s (success pair) and e (error pair)
MetricsMove(s, e) ==
    metrics' = [metrics EXCEPT !.SuccessTotal = @ + s, !.Success[JobLabel] = @ + s,
                               !.ErrorTotal = @ + e, !.Error[JobLabel] = @ + e]

\* the step ends an invocation
Returns == pc' = "idle" /\ (pc # "idle" \/ nruns' = nruns + 1)

\* C3: the step in which an invocation returns increments exactly one pair
\* of counters by one, the success pair when it ended updated or unchanged
\* and the error pair otherwise, and no other step changes a counter.
C3_OneOutcomePerInvocation ==
    [][ IF Returns
        THEN \/ outcome' \in {"updated", "unchanged"} /\ MetricsMove(1, 0)
             \/ outcome' = "failed" /\ MetricsMove(0, 1)
        ELSE metrics' = metrics ]_vars

C3_Witness ==
    /\ Returned /\ nruns = 2 /\ outcome = "unchanged"
    /\ metrics.SuccessTotal = 1 /\ metrics.Success[JobLabel] = 1
    /\ metrics.ErrorTotal = 1 /\ metrics.Error[JobLabel] = 1

\* C4: whenever no invocation is in progress there is no temporary file.
C4_NoTemporaryFileAtRest ==
    pc = "idle" => ~tempFile.exists

C4_Witness ==
    /\ Returned /\ outcome = "failed" /\ errKind = ErrTooLarge
    /\ ~tempFile.exists /\ Len(head) = HeadLen

\* the prefix test as the documentation words it: the first 24 bytes are
\* the PEM header text, or the first two bytes are 0x30 0x82 or 0x30 0x83
DocumentedPrefix(b) ==
    \/ Take(b, HeadLen) = X509CRLPEMHeader
    \/ b[1] = 48 /\ b[2] \in {130, 131}

\* a force=false invocation has returned, it got a response with a body of
\* at least 24 bytes, and the transport did not fail
CheckedRun ==
    /\ Returned /\ ~job.ForceUpdate
    /\ gotResp /\ ~netFault
    /\ Len(resp.data) >= HeadLen

\* C5: for a force=false job and a body of at least 24 bytes the format
\* check is applied, it passes exactly when the body has the documented
\* prefix, and a rejected body fails the run with the destination and the
\* directory untouched.
C5_FormatCheck ==
    /\ CheckedRun => Len(head) = HeadLen
    /\ (~job.ForceUpdate /\ Len(head) = HeadLen) =>
          /\ head = Take(resp.data, HeadLen)
          /\ errKind # ErrFormat <=> DocumentedPrefix(resp.data)
          /\ errKind = ErrFormat =>
                /\ Returned /\ outcome = "failed"
                /\ destFile = dest0 /\ renames = 0 /\ tempFile = Absent

C5_Witness ==
    /\ CheckedRun /\ errKind = ErrFormat
    /\ Take(resp.data, HeadLen - 1) = Take(X509CRLPEMHeader, HeadLen - 1)

\* C6: for a force=false job a body with the documented prefix that is
\* longer than the size limit ends the run with the size-limit error, never
\* with a completed download; no temporary file remains and the destination
\* is as it was.
C6_OverLimitFails ==
    /\ (CheckedRun /\ DocumentedPrefix(resp.data) /\ Len(resp.data) > job.SizeLimit) =>
          /\ outcome = "failed" /\ errKind = ErrTooLarge
          /\ tempFile = Absent /\ destFile = dest0
    /\ (~job.ForceUpdate /\ gotResp /\ Len(resp.data) > job.SizeLimit) => ~PastDownload
    /\ (~job.ForceUpdate /\ tempFile.exists) => Len(tempFile.data) <= job.SizeLimit

C6_Witness ==
    /\ CheckedRun /\ errKind = ErrTooLarge
    /\ Len(resp.data) = job.SizeLimit + 1
    /\ dest0.exists

ForcedRun ==
    /\ Returned /\ job.ForceUpdate
    /\ gotResp /\ ~netFault

\* C8 as stated: a force=true job whose body is longer than the limit fails
\* with the size-limit error and publishes nothing.
C8_ForceOverLimitFails ==
    (ForcedRun /\ Len(resp.data) > job.SizeLimit) =>
        /\ outcome = "failed" /\ errKind = ErrTooLarge
        /\ destFile = dest0

\* C8 amended: the size limit is enforced for force=false jobs only; a
\* force=true job never fails with the size-limit error, its body is copied
\* whole whatever its length, and when no chown, chmod or rename step fails
\* a body longer than the limit is published.
C8_LimitOnlyWithoutForce ==
    /\ job.ForceUpdate => errKind # ErrTooLarge
    /\ (job.ForceUpdate /\ PastDownload) => tempFile = File(resp.data)
    /\ (ForcedRun /\ Len(resp.data) > job.SizeLimit /\ outcome # "failed") =>
          outcome = "updated" /\ destFile = File(resp.data)
    /\ (~job.ForceUpdate /\ PastDownload) => Len(resp.data) <= job.SizeLimit

C8_Witness ==
    /\ ForcedRun /\ Len(resp.data) > job.SizeLimit
    /\ outcome = "updated" /\ destFile = File(resp.data) /\ destFile # dest0

\* C9: a force=true run that does not fail replaces the destination with the
\* downloaded body, whatever the body (short, unrecognized) and whatever the
\* destination held; it reads no head, applies no format check and never
\* opens the destination, and it can fail only in the temporary file, the
\* transport, chown, chmod or the rename.
C9_ForceAlwaysSwaps ==
    job.ForceUpdate =>
        /\ ~destOpened /\ head = << >>
        /\ (Returned /\ outcome # "failed") =>
              /\ outcome = "updated" /\ renames = 1
              /\ gotResp /\ destFile = File(resp.data)
        /\ (Returned /\ outcome = "failed") =>
              errKind \in { "failed to create a temporary file", "http request failed",
                            "copy failed", "temporary file chown failed",
                            "temporary file chmod failed",
                            "failed to replace existing CRL file" }

C9_Witness ==
    /\ ForcedRun /\ nruns = 2 /\ outcome = "updated"
    /\ dest0 = File(resp.data) /\ destFile = dest0
    /\ Len(resp.data) < HeadLen

Proceeded ==
    \/ pc \in {"chown", "chmod", "replace"}
    \/ Returned /\ outcome = "updated"
    \/ Returned /\ errKind \in { "temporary file chown failed",
                                 "temporary file chmod failed",
                                 "failed to replace existing CRL file" }

Decided ==
    \/ Proceeded
    \/ Returned /\ outcome = "unchanged"
    \/ Returned /\ errKind = "failed to compare CRL files"

\* C11: for a force=false job whose download succeeded: when the destination
\* cannot be opened (it is absent or unreadable) the run goes on to the
\* replacement; when it was opened and read to the end the run ends unchanged
\* exactly when the two digests are equal, which is exactly when the two
\* contents are equal, and goes on to the replacement otherwise; when the
\* read of the opened destination fails the run ends with the compare error
\* and replaces nothing.
C11_ChangeDecision ==
    ~job.ForceUpdate =>
        /\ (Decided /\ ~dest0.exists) => Proceeded /\ ~destOpened
        /\ (Decided /\ ~destOpened) => Proceeded
        /\ (Decided /\ destOpened /\ errKind # "failed to compare CRL files") =>
              /\ (Returned /\ outcome = "unchanged") <=>
                    HashSum(tempHash) = HashSum(HashWrite(HashNew, dest0.data))
              /\ (Returned /\ outcome = "unchanged") <=> dest0.data = resp.data
              /\ ~(Returned /\ outcome = "unchanged") => Proceeded
        /\ errKind = "failed to compare CRL files" =>
              /\ Returned /\ outcome = "failed" /\ destOpened
              /\ renames = 0 /\ destFile = dest0 /\ tempFile = Absent

C11_Witness ==
    /\ Returned /\ ~job.ForceUpdate /\ outcome = "updated"
    /\ dest0.exists /\ ~destOpened /\ dest0.data = resp.data
    /\ renames = 1

\* what an invocation does when nothing but the source and the destination
\* decides it: the outcome, the error and the destination it leaves, from the
\* descriptor, the response and the destination found
ExpectedRun(j, r, d) ==
    LET dl == downloadCRL(j.ForceUpdate, j.SizeLimit, r) IN
    IF dl.err # "none"
    THEN [outcome |-> "failed", errKind |-> dl.err, dest |-> d]
    ELSE IF ~j.ForceUpdate /\ d.exists /\ d.data = r.data
    THEN [outcome |-> "unchanged", errKind |-> "none", dest |-> d]
    ELSE [outcome |-> "updated", errKind |-> "none", dest |-> File(r.data)]

\* an invocation has returned and no operation of the environment failed in
\* it: the temporary file was created, the source answered, the transport
\* held, the destination could be read when it was there, chown, chmod and
\* rename went through
UndisturbedRun ==
    /\ Returned /\ gotResp /\ ~netFault
    /\ errKind \notin { "failed to compare CRL files", "temporary file chown failed",
                        "temporary file chmod failed",
                        "failed to replace existing CRL file" }
    /\ (Proceeded /\ ~job.ForceUpdate /\ dest0.exists) => destOpened

\* C19: no step of Run writes a field of the job descriptor, and no state of
\* an earlier run decides a later one: the outcome, the error and the
\* destination an undisturbed invocation leaves are those computed from the
\* descriptor, the response fetched and the destination found at its start,
\* whatever ran before.
C19_RunKeepsDescriptor ==
    [][ /\ job' = job
        /\ UndisturbedRun' =>
              LET e == ExpectedRun(job', resp', dest0') IN
              /\ outcome' = e.outcome
              /\ errKind' = e.errKind
              /\ destFile' = e.dest ]_vars

C19_Witness ==
    /\ UndisturbedRun /\ nruns = 2 /\ ~job.ForceUpdate
    /\ prev.outcome = "updated" /\ prev.data # resp.data
    /\ outcome = "updated" /\ destFile = File(resp.data) /\ destOpened

\* the positions of Run in the order of its statements: the request and the
\* head read (Fetching, which the creation of the temporary file opens), the
\* test of the head and the copy of the body behind it (FormatCheck, left out
\* by a forced job), the comparison (Comparing), chown, chmod and the rename
\* (Replacing)
StepOrder(p) ==
    CASE p = "idle" -> 0
      [] p = "get" -> 1
      [] p = "head" -> 2
      [] p = "copy" -> 3
      [] p = "compare" -> 4
      [] p = "chown" -> 5
      [] p = "chmod" -> 6
      [] p = "replace" -> 7

\* the position each failure is raised from
FailsFrom(k) ==
    CASE k = "failed to create a temporary file" -> {"idle"}
      [] k = "http request failed" -> {"get"}
      [] k \in {"head read failed", ErrFormat} -> {"head"}
      [] k \in {ErrTooLarge, "copy failed"} -> {"copy"}
      [] k = "failed to compare CRL files" -> {"compare"}
      [] k = "temporary file chown failed" -> {"chown"}
      [] k = "temporary file chmod failed" -> {"chmod"}
      [] k = "failed to replace existing CRL file" -> {"replace"}
      [] OTHER -> {}

\* C17: within an invocation the position never moves backward and only the
\* copy loop repeats; the destination changes only in the rename step, which
\* is taken at most once, from the last position, with the whole body in the
\* temporary file and, for force=false, after the destination could not be
\* opened or its digest differed; every failure is raised from its own
\* position between the start of the invocation and the rename; and from
\* rest the only step is the start of the next invocation.
C17_StepOrder ==
    [][ /\ pc' # "idle" =>
              /\ StepOrder(pc') >= StepOrder(pc)
              /\ pc' = pc => pc = "copy"
        /\ (destFile' # destFile \/ renames' > renames) =>
              /\ pc = "replace" /\ pc' = "idle" /\ outcome' = "updated"
              /\ renames = 0 /\ renames' = 1
              /\ gotResp /\ body = << >> /\ tempFile = File(resp.data)
              /\ destFile' = tempFile
              /\ \/ job.ForceUpdate
                 \/ ~destOpened
                 \/ HashSum(tempHash) # HashSum(HashWrite(HashNew, destFile.data))
        /\ (Returns /\ outcome' = "failed") => pc \in FailsFrom(errKind')
        /\ (Returns /\ outcome' # "failed") => pc \in {"compare", "replace"}
        /\ pc = "idle" => nruns' = nruns + 1 ]_vars

C17_Witness ==
    /\ Returned /\ ~job.ForceUpdate /\ outcome = "updated" /\ renames = 1
    /\ destOpened /\ dest0.exists /\ destFile = File(resp.data)
    /\ Len(resp.data) > HeadLen + 1

C12_PrepareDefaults ==
    \A i \in Jobs :
        prepErr[i] = "nil" =>
            LET c == configured[i]
                j == cfg[i]
                t == ParseDuration(c.TimeoutHuman) IN
            /\ j.SizeLimit > 0
            /\ j.SizeLimit = IF c.SizeLimit <= 0 THEN 10485760 ELSE c.SizeLimit
            /\ ParsesStandard(j.Schedule)
            /\ j.Schedule = IF ParsesStandard(c.Schedule) THEN c.Schedule ELSE "@hourly"
            /\ j.TimeoutDuration = IF t.err THEN 60000 ELSE t.d
            /\ GOOS # "windows" => j.Mode = IF c.Mode = 0 THEN 420 ELSE c.Mode

C12_Witness ==
    /\ GOOS = "linux" /\ running /\ prepErr[1] = "nil"
    /\ configured[1].SizeLimit = 0 /\ cfg[1].SizeLimit = 10485760
    /\ configured[1].Schedule = "* * * * * *" /\ cfg[1].Schedule = "@hourly"
    /\ configured[1].TimeoutHuman = "soon" /\ cfg[1].TimeoutDuration = 60000
    /\ configured[1].Mode = 0 /\ cfg[1].Mode = 420
    /\ cfg[1].UID = 1001 /\ cfg[1].GID = 1002

\* filepath.IsAbs on the destinations of the model
IsAbs(path) == path \in { "/etc/crl/crl1.crl", "/etc/crl/crl2.crl" }

\* C13 as stated: after a Prepare that returned no error the destination of
\* the job is an absolute path, and it is the path its invocations work on.
C13_DestinationAbsolute ==
    \A i \in Jobs :
        prepErr[i] = "nil" => IsAbs(cfg[i].Destination)

\* the configured descriptor is one Prepare refuses on this platform
Refused(c) ==
    \/ c.URL = "" \/ c.Destination = ""
    \/ GOOS # "windows" /\ c.Owner # "" /\ c.Owner \notin DOMAIN Passwd
    \/ GOOS # "windows" /\ c.Group # "" /\ c.Group \notin DOMAIN GroupDb

\* C14: Prepare returns an error for a job with an empty URL or destination
\* or with an owner or group that cannot be looked up; such a job gets no
\* scheduler entry, no invocation and no counter, and no file changes except
\* by the rename of a scheduled job onto its own destination; main goes on
\* through the whole list, so that when the scheduler runs every job has
\* been through Prepare and every job that was not refused is scheduled.
C14_RefusedJobNeverRuns ==
    [][ /\ \A i \in Jobs :
              /\ (prepErr'[i] # "pending" /\ Refused(configured[i])) => prepErr'[i] # "nil"
              /\ prepErr'[i] \notin {"pending", "nil"} =>
                    /\ ~Scheduled(i)' /\ cfg'[i].ID = 0
                    /\ inv'[i] = IdleInv /\ completed'[i] = 0
                    /\ Count(pm'.Success, LabelOf(i)') = 0
                    /\ Count(pm'.Error, LabelOf(i)') = 0
              /\ running' =>
                    /\ prepErr'[i] # "pending"
                    /\ ~Refused(configured[i]) => prepErr'[i] = "nil" /\ Scheduled(i)'
        /\ \A p \in DOMAIN files :
              files'[p] # files[p] =>
                  \E k \in Jobs : /\ prepErr[k] = "nil" /\ Scheduled(k)
                                  /\ cfg[k].Destination = p
                                  /\ inv[k].pc = "replace" ]_vars

C14_Witness ==
    /\ GOOS = "linux" /\ running
    /\ prepErr[1] = "group lookup failed" /\ ~Scheduled(1) /\ inv[1] = IdleInv
    /\ prepErr[2] = "nil" /\ Scheduled(2) /\ completed[2] = 1
    /\ files[cfg[2].Destination] = File(Padded(48, 130))

RECURSIVE SumOver(_, _)
SumOver(f, S) ==
    IF S = {} THEN 0
    ELSE LET x == CHOOSE y \in S : TRUE IN f[x] + SumOver(f, S \ {x})

\* the number of jobs whose invocation is at one of the positions ps
At(ps) == Cardinality({ i \in Jobs : inv[i].pc \in ps })

RunStep(i) ==
    \/ RunAnswer(i) \/ RunNetFail(i) \/ RunTimeout(i)
    \/ RunCompare(i) \/ RunFileFail(i) \/ RunReplace(i)
    \/ RunIncTotal(i) \/ RunIncLabel(i) \/ RunReturn(i)

\* C16 as stated: an invocation in progress can always take a step toward
\* its return, also while it waits on a source that does not answer: the
\* timer of the prepared timeout is there to end the wait, whatever timeout
\* string the job was configured with.
C16_InvocationNeverStuck ==
    \A i \in Jobs :
        inv[i].pc # "idle" => ENABLED RunStep(i)

\* C20: an invocation is in progress only with the scheduler started and the
\* job's ID and Metrics set; the scheduler is started only after main's loop,
\* with every job through Prepare and every entry's job holding the id of
\* its entry and the metrics; a descriptor is written only before the
\* scheduler is started and with no invocation in progress, and ID and
\* Metrics are written once.
C20_DescriptorsSetBeforeStart ==
    [][ /\ \A i \in Jobs :
              /\ inv'[i].pc # "idle" =>
                    running' /\ cfg'[i].ID # 0 /\ cfg'[i].Metrics = "pmMetrics"
              /\ (running' /\ Scheduled(i)') =>
                    /\ cfg'[i].ID \in DOMAIN entries' /\ entries'[cfg'[i].ID] = i
                    /\ cfg'[i].Metrics = "pmMetrics"
              /\ running' => prepErr'[i] # "pending"
              /\ <<cfg'[i].ID, cfg'[i].Metrics>> # <<cfg[i].ID, cfg[i].Metrics>> =>
                    cfg[i].ID = 0 /\ cfg[i].Metrics = "nil"
        /\ running' => mainPc'.at = "serve"
        /\ running => running'
        /\ cfg' # cfg =>
              /\ ~running /\ ~running'
              /\ \A k \in Jobs : inv[k].pc = "idle" /\ inv'[k].pc = "idle" ]_vars

C20_Witness ==
    /\ running /\ mainPc.at = "serve"
    /\ cfg[1].ID = 1 /\ cfg[2].ID = 2 /\ entries = << 1, 2 >>
    /\ inv[1].pc = "net" /\ inv[2].pc = "replace"

\* C21: in a force=false download the digest is at every moment the digest
\* of the bytes in the temporary file; while the copy runs, the bytes
\* written, the part of the head still to be emitted and the unread body
\* make up the response body, in that order, with nothing lost and nothing
\* twice; and a download that succeeded has left exactly the response body
\* in the temporary file and in the digest, which is the digest the
\* comparison uses and the content a replacement publishes.
C21_FileAndDigestAreTheBody ==
    ~job.ForceUpdate =>
        /\ tempFile.exists => tempHash = HashWrite(HashNew, tempFile.data)
        /\ (pc = "copy" /\ ~netFault) =>
              /\ head = Take(resp.data, HeadLen)
              /\ tempFile.data \o mrHead \o body = resp.data
        /\ PastDownload => tempFile = File(resp.data)
        /\ (PastDownload \/ Decided) =>
              HashSum(tempHash) = HashSum(HashWrite(HashNew, resp.data))
        /\ (Returned /\ outcome = "updated") => destFile = File(resp.data)

C21_Witness ==
    /\ ~job.ForceUpdate /\ pc = "compare" /\ resp.chunk < CopyBuf
    /\ Len(resp.data) = HeadLen + MaxTail
    /\ tempFile = File(resp.data)
    /\ tempHash = HashWrite(HashNew, resp.data)

\* C22: for a force=false job a response body of fewer than 24 bytes, the
\* empty one and one that starts with 0x30 0x82 or 0x30 0x83 included, ends
\* the run at the head read: the step that returns leaves the head read,
\* records the error pair once and nothing else, and leaves no temporary
\* file and the destination as it was; the head buffer is handed to isCRL
\* only when it holds exactly 24 bytes.
C22_ShortBodyFailsAtHead ==
    [][ ~job.ForceUpdate =>
          /\ head' # << >> => Len(head') = HeadLen
          /\ (gotResp' /\ Len(resp'.data) < HeadLen) =>
                /\ pc' \in {"head", "idle"}
                /\ head' = << >>
                /\ Returns =>
                      /\ pc = "head"
                      /\ outcome' = "failed" /\ errKind' = "head read failed"
                      /\ MetricsMove(0, 1)
                      /\ tempFile' = Absent /\ renames' = 0
                      /\ destFile' = dest0 /\ destFile' = destFile ]_vars

C22_Witness ==
    /\ Returned /\ ~job.ForceUpdate /\ gotResp /\ ~netFault
    /\ resp.data = << 48, 130 >>
    /\ errKind = "head read failed" /\ dest0.exists /\ destFile = dest0
    /\ metrics.ErrorTotal = 1

\* the invocation in slot k holds a temporary file of its own making
HoldsTemp(k) == inv[k].pc \notin {"idle"} /\ inv[k].name # "" /\ ~inv[k].done

\* the body the invocation in slot k has downloaded in full
Downloaded(k) ==
    /\ inv[k].pc \in {"compare", "replace", "total", "label", "return", "idle"}
    /\ inv[k].resp # NoResponse
    /\ downloadCRL(cfg[1].ForceUpdate, cfg[1].SizeLimit, inv[k].resp).err = "none"

\* C23: two overlapping invocations of one job hold temporary files under
\* different names, each file holding what its own invocation has written,
\* and a step of one leaves the file of the other alone; the destination
\* holds at every moment what it held before or the whole body one of the
\* invocations downloaded; and when both have returned no temporary file is
\* left and two outcomes are counted, in the totals and in the job's
\* labelled counters.
C23_OverlapKeepsDestinationWhole ==
    [][ /\ \A k, l \in Slots :
              (k # l /\ HoldsTemp(k)' /\ HoldsTemp(l)') => inv'[k].name # inv'[l].name
        /\ \A k \in Slots :
              /\ HoldsTemp(k)' =>
                    LET dl == downloadCRL(cfg[1].ForceUpdate, cfg[1].SizeLimit, inv'[k].resp) IN
                    files'[inv'[k].name] = File(Take(dl.data, inv'[k].written))
              /\ (HoldsTemp(k) /\ inv'[k] = inv[k]) =>
                    files'[inv[k].name] = files[inv[k].name]
        /\ LET d == files'[cfg[1].Destination] IN
           \/ d = dest0
           \/ \E k \in Slots : Downloaded(k)' /\ inv'[k].done /\ d = File(inv'[k].resp.data)
        /\ (\A k \in Slots : completed'[k] = 1) =>
              /\ \A n \in TempNames : ~files'[n].exists
              /\ pm'.SuccessTotal + pm'.ErrorTotal = 2
              /\ Count(pm'.Success, LabelOf(1)) = pm'.SuccessTotal
              /\ Count(pm'.Error, LabelOf(1)) = pm'.ErrorTotal ]_vars

C23_Witness ==
    /\ inv[1].pc = "return" /\ inv[1].outcome = "updated"
    /\ inv[2].pc = "copy" /\ inv[2].written > 0 /\ inv[2].written < Len(inv[2].resp.data)
    /\ inv[2].resp.data # inv[1].resp.data
    /\ files[cfg[1].Destination] = File(inv[1].resp.data)
    /\ files[cfg[1].Destination] # dest0
    /\ files[inv[2].name].exists

\* the errors of the stream that are not its end
TransportErrors == IF lsrc.R.faulty THEN {ErrReset} ELSE {}

\* what successive Reads owe their caller, seen at one Read
ReadContract ==
    /\ ~call'.panicked
    /\ Len(call'.delivered) <= call.N0
    /\ call'.delivered = Take(call.stream, Len(call'.delivered))
    /\ call'.err = ErrEOF =>
          call'.delivered = call.stream /\ Len(call.stream) <= call.N0
    /\ call'.err = ErrTooLarge =>
          Len(call.stream) > call.N0 /\ call'.delivered = Take(call.stream, call.N0)
    /\ (Len(call.stream) <= call.N0 /\ call'.delivered = call.stream /\ call'.under > call.under) =>
          call'.err \in {ErrNil, ErrEOF} \cup TransportErrors
    /\ (Len(call'.delivered) = call.N0 /\ Len(call.stream) > call.N0 /\ call'.under > call.under
          /\ call.delivered = call'.delivered) =>
          call'.err \in {ErrTooLarge} \cup TransportErrors
    /\ lsrc.Err # ErrNil =>
          /\ call'.n = 0 /\ call'.err = lsrc.Err /\ call'.err = call.err
          /\ call'.under = call.under /\ lsrc' = lsrc

\* C24: for every stream and every limit N >= 0, successive Reads of a
\* LimitedStrictReadCloser return, deliver at most N bytes in all and only
\* the stream's first bytes; end-of-stream is returned only after the whole
\* of a stream of at most N bytes, 'input stream too large' only after
\* exactly the first N bytes of a longer one; and after an error every
\* Read returns 0 bytes and that error without a read of the stream.
C24_ReadsDeliverWithinLimit ==
    [][ ReadContract ]_vars

\* the same for the limits below the largest int64
C24_BelowMaxInt64 ==
    [][ call.N0 < MaxInt64 => ReadContract ]_vars

====
